---------------------------- MODULE Spec2Model ----------------------------
(***************************************************************************)
(* RFMAnalysis.py: the RFM class (load, aggregate, quantile scoring,       *)
(* status classification, save) and the script that drives it.             *)
(*                                                                         *)
(* Numbers.  Timestamps are whole ticks, TicksPerDay of them to a day, so  *)
(* that Timedelta.days (a floor) is not the identity.  Amounts are whole   *)
(* units.  Quantile boundaries are interpolated at quarter positions, so   *)
(* they are kept multiplied by 4 (bins4) and every comparison of a value x *)
(* with a boundary compares 4*x.  Mean and standard deviation are kept as  *)
(* the triple (n, sum, n*sumsq - sum^2); every comparison with avg or      *)
(* avg +- std is the exact comparison of the reals, cross-multiplied.      *)
(* Rounding of binary floating point is not modelled.                      *)
(***************************************************************************)
EXTENDS Integers, Sequences, FiniteSets, TLC

(* ---------------------------- bounds ---------------------------------- *)
\* rows of a small input file, and the kinds of row it is drawn from
MaxRows == 3
NumCells == 20
\* ticks of the clock in a day
TicksPerDay == 2
\* customers of a population, and the kinds of customer it is drawn from
MaxPop == 8
NumKinds == 8

(* ------------------------- small helpers ------------------------------ *)
RECURSIVE SumSeq(_)
SumSeq(s) == IF s = <<>> THEN 0 ELSE Head(s) + SumSeq(Tail(s))

RECURSIVE MaxSeq(_)
\* Series.max(): the largest element of a non-empty column
MaxSeq(s) ==
    IF Len(s) = 1 THEN Head(s)
    ELSE LET m == MaxSeq(Tail(s)) IN IF Head(s) > m THEN Head(s) ELSE m

SelectRows(df, k) == SelectSeq(df, LAMBDA r : r.id = k)

Column(t, c) == [i \in 1..Len(t) |-> t[i][c]]

(* ------------------------------ loader -------------------------------- *)
\* a path with no readable Parquet file behind it
Missing == [tag |-> "Missing"]

\* a raw IslemTarih value that is no date
BadDate == -1

\* pd.to_datetime over the IslemTarih column: raises on a value it cannot parse
ToDatetimeFails(rows) == \E i \in 1..Len(rows) : rows[i].IslemTarih = BadDate

\* RFM._load_data raises: read_parquet on a missing file, to_datetime on a bad date
LoadFails(src) == IF src.tag = "Missing" THEN TRUE ELSE ToDatetimeFails(src.rows)

\* RFM._load_data returns the rows, IslemTarih as datetime (ticks)
LoadData(src) == src.rows

(* ---------------------------- aggregator ------------------------------ *)
\* faulty variant of LatestDate: the timestamp of the last row, as if the rows were in
\* date order
LatestDate_LastRow(df) == IF df = <<>> THEN -1 ELSE df[Len(df)].IslemTarih

\* self.df['IslemTarih'].max(); NaT (modelled as -1) on an empty table
LatestDate(df) == IF df = <<>> THEN -1 ELSE MaxSeq(Column(df, "IslemTarih"))

\* groupby('id'): the group keys, sorted ascending, each once
GroupKeys(df) ==
    SortSeq(
        SelectSeq([i \in 1..Len(df) |-> IF \E j \in 1..(i-1) : df[j].id = df[i].id
                                        THEN 0 ELSE df[i].id],
                  LAMBDA k : k # 0),
        LAMBDA a, b : a < b)

\* faulty variant of RecencyOf: the customer's last listed transaction instead of the
\* latest one
RecencyOf_LastRow(latest_date, date) == (latest_date - date[Len(date)]) \div TicksPerDay

\* (self.latest_date - date.max()).days
RecencyOf(latest_date, date) == (latest_date - MaxSeq(date)) \div TicksPerDay

\* 'IslemID': 'count'
CountOf(islemId) == Len(islemId)

\* faulty variant of SumOf: 'IslemTutar': 'max'
SumOf_Max(islemTutar) == MaxSeq(islemTutar)

\* 'IslemTutar': 'sum'
SumOf(islemTutar) == SumSeq(islemTutar)

\* the groupby/agg/rename of _calculate_rfm: one row per id, indexed by id
Aggregate(df, latest_date) ==
    LET keys == GroupKeys(df)
    IN [index |-> keys,
        rows  |-> [i \in 1..Len(keys) |->
                    LET g == SelectRows(df, keys[i])
                    IN [Recency   |-> RecencyOf(latest_date, Column(g, "IslemTarih")),
                        Frequency |-> CountOf(Column(g, "IslemID")),
                        Monetary  |-> SumOf(Column(g, "IslemTutar"))]]]

(* ------------------------------ scorer -------------------------------- *)
SortedCol(column) == SortSeq(column, LAMBDA a, b : a < b)

\* Series.quantile(k/4), linear interpolation, times 4
Quantile4(sorted, k) ==
    LET pos4 == (Len(sorted) - 1) * k
        i    == pos4 \div 4
        r    == pos4 % 4
    IN IF r = 0 THEN 4 * sorted[i + 1]
       ELSE 4 * sorted[i + 1] + r * (sorted[i + 2] - sorted[i + 1])

RECURSIVE Unique(_)
\* algos.unique over the (non-decreasing) boundaries: duplicates='drop'
Unique(s) ==
    IF Len(s) <= 1 THEN s
    ELSE IF s[1] = s[2] THEN Unique(Tail(s))
    ELSE <<s[1]>> \o Unique(Tail(s))

\* the bins pd.qcut(column, q=4, retbins=True, duplicates='drop') returns,
\* times 4; a single NaN boundary (modelled as <<-1>>) on an empty column
QcutBins4(column) ==
    IF column = <<>> THEN <<-1>>
    ELSE LET s == SortedCol(column)
         IN Unique([k \in 1..5 |-> Quantile4(s, k - 1)])

\* labels[-n:] : Python's slice, which is the whole list when n = 0
LastLabels(labels, n) ==
    IF n = 0 THEN labels ELSE SubSeq(labels, Len(labels) - n + 1, Len(labels))

NaN == 0

\* pd.cut's bin of one value: searchsorted(side='left'), include_lowest=True,
\* and NaN outside the bins
CutId(x, bins4) ==
    LET ids == IF 4 * x = bins4[1] THEN 1
               ELSE Cardinality({j \in 1..Len(bins4) : bins4[j] < 4 * x})
    IN IF ids = 0 \/ ids = Len(bins4) THEN NaN ELSE ids

\* RFM._dynamic_qcut: the labels of the column, or the ValueError pd.cut
\* raises when the labels are not one fewer than the bin edges
DynamicQcut(column, labels) ==
    LET bins4 == QcutBins4(column)
        n     == Len(bins4) - 1
        lab   == LastLabels(labels, n)
    IN IF Len(lab) # Len(bins4) - 1 THEN [raised |-> TRUE]
       ELSE [raised |-> FALSE,
             labels |-> [i \in 1..Len(column) |->
                           LET id == CutId(column[i], bins4)
                           IN IF id = NaN THEN NaN ELSE lab[id]]]

\* faulty variant of RecencyLabels: the ascending labels of the other two metrics
RecencyLabels_Ascending == <<1, 2, 3, 4>>

RecencyLabels == <<4, 3, 2, 1>>
FrequencyLabels == <<1, 2, 3, 4>>
MonetaryLabels == <<1, 2, 3, 4>>

\* the dtype of a row of the frame that DataFrame.apply(axis=1) hands to the
\* lambda: the common dtype of Recency, Frequency (int64), Monetary and the
\* integer categories of R, F, M, which is float64 as soon as Monetary is
RowDtype(monetaryDtype) == IF monetaryDtype = "float64" THEN "float64" ELSE "int64"

Digit(v) == CASE v = 1 -> "1" [] v = 2 -> "2" [] v = 3 -> "3" [] v = 4 -> "4"

\* f"{x}" of one label taken from a row of that dtype
Format(v, dtype) ==
    IF v = NaN THEN <<"n", "a", "n">>
    ELSE IF dtype = "float64" THEN <<Digit(v), ".", "0">>
    ELSE <<Digit(v)>>

\* f"{x['R']}{x['F']}{x['M']}"
SegmentOf(r, f, m, dtype) == Format(r, dtype) \o Format(f, dtype) \o Format(m, dtype)

\* rfm[['R', 'F', 'M']].sum(axis=1); NaN is skipped and NaN == 0
ScoreOf(r, f, m) == r + f + m

\* RFM._calculate_rfm
CalculateRfm(df, latest_date, monetaryDtype) ==
    LET agg == Aggregate(df, latest_date)
        R   == DynamicQcut(Column(agg.rows, "Recency"), RecencyLabels)
        F   == DynamicQcut(Column(agg.rows, "Frequency"), FrequencyLabels)
        M   == DynamicQcut(Column(agg.rows, "Monetary"), MonetaryLabels)
    IN IF R.raised \/ F.raised \/ M.raised THEN [raised |-> TRUE]
       ELSE [raised |-> FALSE,
             index  |-> agg.index,
             rows   |-> [i \in 1..Len(agg.rows) |->
                 [Recency     |-> agg.rows[i].Recency,
                  Frequency   |-> agg.rows[i].Frequency,
                  Monetary    |-> agg.rows[i].Monetary,
                  R           |-> R.labels[i],
                  F           |-> F.labels[i],
                  M           |-> M.labels[i],
                  RFM_Segment |-> SegmentOf(R.labels[i], F.labels[i], M.labels[i],
                                            RowDtype(monetaryDtype)),
                  RFM_Score   |-> ScoreOf(R.labels[i], F.labels[i], M.labels[i])]]]

(* ---------------------------- classifier ------------------------------ *)
\* self.rfm['RFM_Score'].mean() and .std() (ddof = 1), kept exactly:
\* avg = sum / n, std = sqrt(q / (n * (n - 1))), undefined (NaN) when n < 2
ScoreStats(scores) ==
    LET n == Len(scores)
        s == SumSeq(scores)
    IN [n |-> n, sum |-> s,
        q |-> n * SumSeq([i \in 1..n |-> scores[i] * scores[i]]) - s * s]

StdIsNaN(st) == st.n < 2

\* n * (score - avg)
Dev(score, st) == st.n * score - st.sum

\* score >= avg
GeAvg(score, st) == Dev(score, st) >= 0

\* score >= avg + std (every comparison with NaN is False)
GeAvgPlusStd(score, st) ==
    /\ ~StdIsNaN(st)
    /\ Dev(score, st) >= 0
    /\ Dev(score, st) * Dev(score, st) * (st.n - 1) >= st.n * st.q

\* avg + std > score
AvgPlusStdGt(score, st) ==
    /\ ~StdIsNaN(st)
    /\ \/ Dev(score, st) < 0
       \/ Dev(score, st) * Dev(score, st) * (st.n - 1) < st.n * st.q

\* avg > score
AvgGt(score, st) == Dev(score, st) < 0

\* score >= avg - std
GeAvgMinusStd(score, st) ==
    /\ ~StdIsNaN(st)
    /\ \/ Dev(score, st) >= 0
       \/ Dev(score, st) * Dev(score, st) * (st.n - 1) <= st.n * st.q

\* faulty variant of GetRfmStatus: the lower bound of Altin exclusive (score > avg)
GetRfmStatus_ExclusiveAvg(score, st) ==
    IF GeAvgPlusStd(score, st) THEN "Platinum"
    ELSE IF AvgPlusStdGt(score, st) /\ Dev(score, st) > 0 THEN "Altin"
    ELSE IF AvgGt(score, st) /\ GeAvgMinusStd(score, st) THEN "Gumus"
    ELSE "Bronz"

\* RFM._get_rfm_status ("Altin", "Gumus" stand for the accented names)
GetRfmStatus(score, st) ==
    IF GeAvgPlusStd(score, st) THEN "Platinum"
    ELSE IF AvgPlusStdGt(score, st) /\ GeAvg(score, st) THEN "Altin"
    ELSE IF AvgGt(score, st) /\ GeAvgMinusStd(score, st) THEN "Gumus"
    ELSE "Bronz"

\* RFM._get_rfm_description (each text abbreviated to its first words)
GetRfmDescription(status) ==
    CASE status = "Platinum" -> "Yuksek degerli musteri"
      [] status = "Altin"    -> "Orta degerli musteri"
      [] status = "Gumus"    -> "Dusuk-orta degerli musteri"
      [] status = "Bronz"    -> "Dusuk degerli musteri"
      [] OTHER               -> "Tanimsiz"

\* a row with the column c set to v (added when the frame has no such column)
WithColumn(row, c, v) ==
    [k \in DOMAIN row \cup {c} |-> IF k = c THEN v ELSE row[k]]

\* RFM.calculate_customer_value
CalculateCustomerValue(t) ==
    LET st == ScoreStats(Column(t.rows, "RFM_Score"))
    IN [t EXCEPT !.rows = [i \in 1..Len(t.rows) |->
          LET status == GetRfmStatus(t.rows[i].RFM_Score, st)
          IN WithColumn(WithColumn(t.rows[i], "Status", status),
                        "Description", GetRfmDescription(status))]]

(* ------------------------------ writer -------------------------------- *)
\* faulty variant of ResetIndex: reset_index(drop=True), the index is lost
ResetIndex_Drop(t) == t.rows

\* self.rfm.reset_index(): the index becomes the column id
ResetIndex(t) == [i \in 1..Len(t.rows) |-> WithColumn(t.rows[i], "id", t.index[i])]

(* ------------------------------- state -------------------------------- *)
VARIABLES
    source,       \* what lies behind self.filepath
    mode,         \* "main": the script of lines 146-149; "client": any caller
    pc,           \* where the caller stands
    df,           \* self.df
    latest_date,  \* self.latest_date
    rfm,          \* self.rfm
    output,       \* what lies behind output_file
    err           \* the exception that ended the run, "None" if none

vars == <<source, mode, pc, df, latest_date, rfm, output, err>>

NoTable == [tag |-> "NoTable"]
NoFile == [tag |-> "NoFile"]
PartialFile == [tag |-> "Partial"]


\* a file of the given rows; IslemID is the row's place in the file
FileOf(cells, dtype) ==
    [tag |-> "File", IslemTutarDtype |-> dtype,
     rows |-> [i \in 1..Len(cells) |->
                [id |-> cells[i].id, IslemID |-> i,
                 IslemTarih |-> cells[i].IslemTarih,
                 IslemTutar |-> cells[i].IslemTutar]]]

\* the c-th kind of row: customer 1 or 2, an amount of 1 or 2, and a date
\* that is unparseable or one of the ticks 0, 1, 2, ...
CellOf(c) ==
    [id         |-> (c % 2) + 1,
     IslemTutar |-> ((c \div 2) % 2) + 1,
     IslemTarih |-> IF c \div 4 = 0 THEN BadDate ELSE (c \div 4) - 1]

Cells == {CellOf(c) : c \in 0..(NumCells - 1)}

\* the k-th kind of customer: the last transaction on day 0 or 1, 1 or 2
\* transactions, and an amount of 1, 2, ... for each of them
KindOf(k) ==
    [day  |-> k % 2,
     freq |-> ((k \div 2) % 2) + 1,
     unit |-> (k \div 4) + 1]

RECURSIVE Populations(_, _)
\* the populations of n customers, one representative (kinds non-decreasing)
\* of each multiset of kinds
Populations(n, lo) ==
    IF n = 0 THEN {<<>>}
    ELSE UNION {{<<k>> \o rest : rest \in Populations(n - 1, k)} : k \in lo..(NumKinds - 1)}

RECURSIVE CellsOfPopulation(_, _)
\* the transactions of the customers c, c+1, ... of a population
CellsOfPopulation(pop, c) ==
    IF c > Len(pop) THEN <<>>
    ELSE LET kind == KindOf(pop[c])
         IN [i \in 1..kind.freq |->
                [id |-> c, IslemTarih |-> kind.day * TicksPerDay, IslemTutar |-> kind.unit]]
            \o CellsOfPopulation(pop, c + 1)

Unstarted ==
    /\ pc = "construct"
    /\ df = <<>>
    /\ latest_date = -1
    /\ rfm = NoTable
    /\ output = NoFile
    /\ err = "None"

\* a client of the class; no file, or a file of at most MaxRows transactions
\* in any order, the amounts stored as integers
Init ==
    /\ \/ source = Missing
       \/ \E n \in 0..MaxRows : \E cells \in [1..n -> Cells] :
             source = FileOf(cells, "int64")
    /\ mode = "client"
    /\ Unstarted

\* the script; no file, or the file of a population of at most MaxPop
\* customers, the amounts stored as floats
InitPop ==
    /\ \/ source = Missing
       \/ \E n \in 0..MaxPop : \E pop \in Populations(n, 0) :
             source = FileOf(CellsOfPopulation(pop, 1), "float64")
    /\ mode = "main"
    /\ Unstarted

\* where the caller stands after a call that returned
After(here) ==
    IF mode = "client" THEN "client"
    ELSE CASE here = "construct" -> "calculate"
           [] here = "calculate" -> "save"
           [] here = "save"      -> "done"

\* RFM.__init__ (calculator = RFM(path))
RFM_init ==
    /\ pc = "construct"
    /\ \/ /\ LoadFails(source)
          /\ pc' = "aborted"
          /\ err' = IF source.tag = "Missing" THEN "FileNotFoundError" ELSE "ParserError"
          /\ UNCHANGED <<df, latest_date, rfm>>
       \/ /\ ~LoadFails(source)
          /\ LET d == LoadData(source)
                 l == LatestDate(d)
                 t == CalculateRfm(d, l, source.IslemTutarDtype)
             IN /\ df' = d
                /\ latest_date' = l
                /\ IF t.raised
                   THEN pc' = "aborted" /\ err' = "ValueError" /\ rfm' = rfm
                   ELSE /\ pc' = After("construct")
                        /\ err' = err
                        /\ rfm' = [tag |-> "Table", index |-> t.index, rows |-> t.rows]
    /\ UNCHANGED <<source, mode, output>>

\* RFM.calculate_customer_value
calculate_customer_value ==
    /\ pc \in {"calculate", "client"}
    /\ rfm' = CalculateCustomerValue(rfm)
    /\ pc' = After("calculate")
    /\ UNCHANGED <<source, mode, df, latest_date, output, err>>

\* RFM.save_results: to_parquet writes straight to output_file; it returns,
\* or raises before the file is created, or raises after it was created
save_results ==
    /\ pc \in {"save", "client"}
    /\ \/ /\ output' = [tag |-> "Table", rows |-> ResetIndex(rfm)]
          /\ pc' = After("save")
          /\ err' = err
       \/ /\ output' = output
          /\ pc' = "aborted"
          /\ err' = "OSError"
       \/ /\ output' = PartialFile
          /\ pc' = "aborted"
          /\ err' = "OSError"
    /\ UNCHANGED <<source, mode, df, latest_date, rfm>>

Next == RFM_init \/ calculate_customer_value \/ save_results

Spec == Init /\ [][Next]_vars

SpecPop == InitPop /\ [][Next]_vars

(* ------------------- vocabulary of the properties --------------------- *)
HasTable == rfm.tag = "Table"

HasStatus == HasTable /\ \A i \in 1..Len(rfm.rows) : "Status" \in DOMAIN rfm.rows[i]

Customers == 1..Len(rfm.rows)

SetMax(S) == CHOOSE m \in S : \A x \in S : x <= m

SetMin(S) == CHOOSE m \in S : \A x \in S : m <= x

RECURSIVE SumOver(_, _)
\* the sum of f[i] over the indices i of I
SumOver(f, I) ==
    IF I = {} THEN 0
    ELSE LET i == CHOOSE j \in I : TRUE IN f[i] + SumOver(f, I \ {i})

\* the number of distinct quartile boundaries of a column, less one
UsableBins(column) ==
    IF column = <<>> THEN 0
    ELSE Cardinality({Quantile4(SortedCol(column), k) : k \in 0..4}) - 1

Metrics == {"Recency", "Frequency", "Monetary"}

\* the metric columns of a loadable file, computed whether or not scoring succeeds
MetricColumn(c) == Column(Aggregate(source.rows, LatestDate(source.rows)).rows, c)

Loadable == source.tag = "File" /\ ~ToDatetimeFails(source.rows)

TierRank(status) ==
    CASE status = "Bronz" -> 1 [] status = "Gumus" -> 2
      [] status = "Altin" -> 3 [] status = "Platinum" -> 4

(* ------------------------------- C1 ----------------------------------- *)
\* C1: whenever the quantile binning of one of Recency, Frequency, Monetary
\* degenerates to fewer than 2 usable bins, the run ends in a failure and no
\* R/F/M score, Segment, Score or Status is produced for any customer.  (The
\* kind of the failure is left open here: any exception counts.)
C1_DegenerateBinningFails ==
    (pc # "construct" /\ Loadable /\ \E c \in Metrics : UsableBins(MetricColumn(c)) < 2)
        => (pc = "aborted" /\ rfm = NoTable /\ output = NoFile)

(* ------------------------------- C2 ----------------------------------- *)
\* Comparisons of a score with avg and avg +- std, as comparisons of reals:
\* with n scores of sum s and sum of squares ss, avg = s/n and
\* std^2 = (n*ss - s^2) / (n*(n-1)), undefined for n < 2
Scores == [i \in Customers |-> rfm.rows[i].RFM_Score]

\* n * (x - avg), for n scores of sum s
AboveAvg(x, n, s) == n * x - s

\* x - avg against std, squared and cross-multiplied; v = n*ss - s^2
Sq(x, n, s) == AboveAvg(x, n, s) * AboveAvg(x, n, s) * (n - 1)

\* the tiers whose threshold condition the score x meets
TiersOf(x, n, s, v) ==
    {t \in {"Platinum", "Altin", "Gumus", "Bronz"} :
        /\ n >= 2
        /\ \/ t = "Platinum" /\ AboveAvg(x, n, s) >= 0 /\ Sq(x, n, s) >= n * v
           \/ t = "Altin" /\ AboveAvg(x, n, s) >= 0 /\ Sq(x, n, s) < n * v
           \/ t = "Gumus" /\ AboveAvg(x, n, s) < 0 /\ Sq(x, n, s) <= n * v
           \/ t = "Bronz" /\ AboveAvg(x, n, s) < 0 /\ Sq(x, n, s) > n * v}

ScoreSum == SumOver(Scores, Customers)

ScoreVarNum ==
    Len(Scores) * SumOver([i \in Customers |-> Scores[i] * Scores[i]], Customers)
        - ScoreSum * ScoreSum

\* C2: after calculate_customer_value every customer's Score meets the
\* threshold condition of exactly one tier, and Status is that tier:
\* Platinum iff Score >= avg + std, Altin iff avg <= Score < avg + std,
\* Gumus iff avg - std <= Score < avg, Bronz iff Score < avg - std.
C2_StatusByThresholds ==
    HasStatus =>
        LET n == Len(Scores)
            s == ScoreSum
            v == ScoreVarNum
        IN \A i \in Customers : TiersOf(Scores[i], n, s, v) = {rfm.rows[i].Status}

\* calculate_customer_value has run on scores that are all equal (std = 0)
C2_Witness == HasStatus /\ ScoreVarNum = 0

(* ------------------------------- C3 ----------------------------------- *)
\* C3: when binning succeeds, every customer with the minimum Recency has
\* R = 4, every customer with the maximum Frequency has F = 4 and every
\* customer with the maximum Monetary has M = 4, also when a column
\* collapses to fewer than 4 bins.
C3_BestBinScoresFour ==
    HasTable => \A i \in Customers :
        LET row == rfm.rows[i]
        IN /\ row.Recency = SetMin({rfm.rows[j].Recency : j \in Customers}) => row.R = 4
           /\ row.Frequency = SetMax({rfm.rows[j].Frequency : j \in Customers}) => row.F = 4
           /\ row.Monetary = SetMax({rfm.rows[j].Monetary : j \in Customers}) => row.M = 4

(* ------------------------------- C4 ----------------------------------- *)
AllBinned == \A c \in Metrics : UsableBins(Column(rfm.rows, c)) >= 2

\* customer a is at least as good as customer b on every metric
AtLeastAsGood(a, b) ==
    /\ rfm.rows[a].Recency <= rfm.rows[b].Recency
    /\ rfm.rows[a].Frequency >= rfm.rows[b].Frequency
    /\ rfm.rows[a].Monetary >= rfm.rows[b].Monetary

\* the best and the worst value of every metric in the table
Extremes ==
    [minR |-> SetMin({rfm.rows[j].Recency : j \in Customers}),
     maxR |-> SetMax({rfm.rows[j].Recency : j \in Customers}),
     minF |-> SetMin({rfm.rows[j].Frequency : j \in Customers}),
     maxF |-> SetMax({rfm.rows[j].Frequency : j \in Customers}),
     minM |-> SetMin({rfm.rows[j].Monetary : j \in Customers}),
     maxM |-> SetMax({rfm.rows[j].Monetary : j \in Customers})]

\* customer a holds the best value of every metric, customer b the worst
BestAndWorst(a, b, x) ==
    /\ rfm.rows[a].Recency = x.minR
    /\ rfm.rows[a].Frequency = x.maxF
    /\ rfm.rows[a].Monetary = x.maxM
    /\ rfm.rows[b].Recency = x.maxR
    /\ rfm.rows[b].Frequency = x.minF
    /\ rfm.rows[b].Monetary = x.minM

\* C4: in a run in which every metric bins into at least 2 bins, a customer
\* who is at least as good as another on Recency (lower), Frequency and
\* Monetary (higher) has a Score and a Status tier that are not lower; and
\* the customer holding the best of every metric has a strictly higher Score
\* and tier than the customer holding the worst of every metric.
C4_ScoringMonotone ==
    (HasStatus /\ AllBinned) =>
        \A x \in {Extremes} : \A a, b \in Customers :
            /\ AtLeastAsGood(a, b) =>
                  /\ rfm.rows[a].RFM_Score >= rfm.rows[b].RFM_Score
                  /\ TierRank(rfm.rows[a].Status) >= TierRank(rfm.rows[b].Status)
            /\ BestAndWorst(a, b, x) =>
                  /\ rfm.rows[a].RFM_Score > rfm.rows[b].RFM_Score
                  /\ TierRank(rfm.rows[a].Status) > TierRank(rfm.rows[b].Status)

\* a classified population of at least 8 customers, every metric binned,
\* with a best and a worst customer
C4_Witness ==
    /\ HasStatus
    /\ AllBinned
    /\ Len(rfm.rows) >= 8
    /\ \E a, b \in Customers : BestAndWorst(a, b, Extremes)

(* ------------------------------- C5 ----------------------------------- *)
\* C5: a run of the script is all-or-nothing: if a stage fails the run
\* aborts and no output file exists afterwards, complete or partial; an
\* output file exists only after a run in which every stage succeeded.
C5_AllOrNothing ==
    mode = "main" =>
        /\ pc = "aborted" => output = NoFile
        /\ output # NoFile => pc = "done"

(* ------------------------------- C6 ----------------------------------- *)
BaseColumns ==
    {"id", "Recency", "Frequency", "Monetary", "R", "F", "M", "RFM_Segment", "RFM_Score"}

AllColumns == BaseColumns \cup {"Status", "Description"}

\* C6 as claimed: every output file written by save_results contains, for
\* each customer row, all of id, Recency, Frequency, Monetary, R, F, M,
\* Segment, Score, Status and Description, whatever the order of the calls.
C6_OutputHasAllColumns ==
    output.tag = "Table" =>
        \A i \in 1..Len(output.rows) : AllColumns \subseteq DOMAIN output.rows[i]

\* C6 as amended: every output file that a save_results call writes
\* contains, for each customer row, id, Recency, Frequency, Monetary, R, F,
\* M, Segment and Score; it contains Status and Description as well exactly
\* when calculate_customer_value was called on the object before that call
\* (when self.rfm holds them at the call).
C6_OutputColumnsFollowCalls ==
    [][(output' # output /\ output'.tag = "Table") =>
          \A i \in 1..Len(output'.rows) :
              DOMAIN output'.rows[i] = IF HasStatus THEN AllColumns ELSE BaseColumns]_vars

\* a client saved before calculate_customer_value and classified afterwards
C6_Witness ==
    /\ output.tag = "Table"
    /\ \E i \in 1..Len(output.rows) : "Status" \notin DOMAIN output.rows[i]
    /\ HasStatus

(* ------------------------------- C7 ----------------------------------- *)
\* C7: over the rows produced by _calculate_rfm the Frequencies add up to the
\* number of input rows, the Monetaries add up to the sum of the amounts of
\* all input rows, and every Frequency is at least 1.
C7_TotalsConserved ==
    HasTable =>
        /\ SumOver([i \in Customers |-> rfm.rows[i].Frequency], Customers)
              = Len(source.rows)
        /\ SumOver([i \in Customers |-> rfm.rows[i].Monetary], Customers)
              = SumOver([i \in 1..Len(source.rows) |-> source.rows[i].IslemTutar],
                        1..Len(source.rows))
        /\ \A i \in Customers : rfm.rows[i].Frequency >= 1

\* a table in which some customer has several transactions of unequal amounts
C7_Witness ==
    /\ HasTable
    /\ \E i, j \in 1..Len(source.rows) :
          /\ i # j
          /\ source.rows[i].id = source.rows[j].id
          /\ source.rows[i].IslemTutar # source.rows[j].IslemTutar

(* ------------------------------- C8 ----------------------------------- *)
\* the latest timestamp of the whole input, and of one customer
GlobalLatest == SetMax({source.rows[i].IslemTarih : i \in 1..Len(source.rows)})

LatestOfCustomer(k) ==
    SetMax({source.rows[i].IslemTarih : i \in {j \in 1..Len(source.rows) : source.rows[j].id = k}})

\* the whole days in a non-negative number of ticks
WholeDays(ticks) == CHOOSE d \in 0..ticks : d * TicksPerDay <= ticks /\ ticks < (d + 1) * TicksPerDay

\* C8: every customer's Recency is the whole number of days between the
\* latest timestamp of the entire dataset and that customer's own latest
\* timestamp; hence Recency >= 0 for all and Recency = 0 for at least one.
C8_RecencyFromGlobalLatest ==
    HasTable =>
        /\ \A i \in Customers :
              /\ rfm.rows[i].Recency = WholeDays(GlobalLatest - LatestOfCustomer(rfm.index[i]))
              /\ rfm.rows[i].Recency >= 0
        /\ \E i \in Customers : rfm.rows[i].Recency = 0

\* a table with a customer whose distance to the global latest timestamp is
\* more than a day and not a whole number of days, and who has an older
\* transaction as well
C8_Witness ==
    /\ HasTable
    /\ \E i \in Customers :
          /\ rfm.rows[i].Recency >= 1
          /\ (GlobalLatest - LatestOfCustomer(rfm.index[i])) % TicksPerDay # 0
    /\ \E i, j \in 1..Len(source.rows) :
          /\ source.rows[i].id = source.rows[j].id
          /\ source.rows[i].IslemTarih # source.rows[j].IslemTarih

(* ------------------------------- C9 ----------------------------------- *)
\* C9: whenever binning is non-degenerate every customer has a defined R, F
\* and M in 1..4, Segment is exactly the three characters R, F, M in that
\* order, and Score = R + F + M, within 3..12.
C9_SegmentAndScore ==
    (HasTable /\ AllBinned) => \A i \in Customers :
        LET row == rfm.rows[i]
        IN /\ {row.R, row.F, row.M} \subseteq 1..4
           /\ row.RFM_Segment = <<Digit(row.R), Digit(row.F), Digit(row.M)>>
           /\ row.RFM_Score = row.R + row.F + row.M
           /\ row.RFM_Score \in 3..12

(* ------------------------------- C10 ---------------------------------- *)
\* the input rows in the order p
Permuted(rows, p) == [i \in 1..Len(rows) |-> rows[p[i]]]

\* the Recency, Frequency, Monetary part of self.rfm
MetricsOfTable ==
    [index |-> rfm.index,
     rows  |-> [i \in Customers |->
                 [Recency   |-> rfm.rows[i].Recency,
                  Frequency |-> rfm.rows[i].Frequency,
                  Monetary  |-> rfm.rows[i].Monetary]]]

SourceIds == {source.rows[i].id : i \in 1..Len(source.rows)}

\* the sequence holds every element of S exactly once
ExactlyOnce(ids, S) == Len(ids) = Cardinality(S) /\ {ids[i] : i \in 1..Len(ids)} = S

\* C10: every permutation of the input rows yields the same Recency,
\* Frequency and Monetary for every customer, and the result and the written
\* output have exactly one row per distinct customer id of the input.
C10_OrderIndependent ==
    HasTable =>
        /\ \A p \in Permutations(1..Len(source.rows)) :
              LET rows == Permuted(source.rows, p)
              IN Aggregate(rows, LatestDate(rows)) = MetricsOfTable
        /\ ExactlyOnce(rfm.index, SourceIds)
        /\ output.tag = "Table" => ExactlyOnce(Column(output.rows, "id"), SourceIds)

\* a written table whose input is not grouped by customer: a customer's two
\* transactions, of different dates and amounts, with another's in between
C10_Witness ==
    /\ HasTable
    /\ output.tag = "Table"
    /\ Len(source.rows) = 3
    /\ source.rows[1].id = source.rows[3].id
    /\ source.rows[1].id # source.rows[2].id
    /\ source.rows[1].IslemTarih > source.rows[3].IslemTarih
    /\ source.rows[1].IslemTutar # source.rows[3].IslemTutar

=============================================================================
